---------------------------- MODULE Spec2Model ----------------------------
(***************************************************************************)
(* The calendar widget of themes/daily/assets/js/main.js.                  *)
(*                                                                         *)
(* Strings are sequences of character codes ("-" is 45, "0".."9" are       *)
(* 48..57, letters are above the digits), so that padding, splitting,      *)
(* parsing and string comparison are computed as the script computes them. *)
(* A JavaScript Date is its local calendar day, counted in days from       *)
(* 1970-01-01 (every Date the script builds is at local midnight, and the  *)
(* Date methods it calls work on the local calendar fields).               *)
(* An optional value (null, undefined, NaN) is the empty tuple << >> and a *)
(* present one the one-element tuple <<v>>.  A null or empty string that   *)
(* the script only ever tests for truthiness is the empty string << >>.    *)
(***************************************************************************)
EXTENDS Integers, Sequences, FiniteSets, TLC

VARIABLES
    call,          \* the utility call made and its result, or the link followed
    calendarData,  \* root.dataset.calendarData: the embedded data attribute
    dataset,       \* the other data-* attributes of the widget's root element
    search,        \* window.location.search: the query parameters y, m, day
    today,         \* new Date(): the local day the page is loaded on
    phase,         \* "loading" before setupCalendar runs, then how it ended
    state,         \* the state object setupCalendar hands to the renderers
    host,          \* DOM region [data-calendar-container]
    articles       \* DOM region [data-calendar-articles]

vars == <<call, calendarData, dataset, search, today, phase, state, host, articles>>

\* No utility call was made
Idle == [op |-> "none"]

None == << >>
Some(v) == <<v>>
IsSome(o) == o # << >>
The(o) == o[1]

-----------------------------------------------------------------------------
(* Strings *)

Hyphen == <<45>>

DigitChar(d) == 48 + d

IsDigitChar(c) == c >= 48 /\ c <= 57

RECURSIVE NatToString(_)
NatToString(n) ==
    IF n < 10 THEN <<DigitChar(n)>>
    ELSE NatToString(n \div 10) \o <<DigitChar(n % 10)>>

\* String(value) for an integer value
NumberToString(n) == IF n < 0 THEN Hyphen \o NatToString(-n) ELSE NatToString(n)

RECURSIVE Zeros(_)
Zeros(n) == IF n <= 0 THEN << >> ELSE <<DigitChar(0)>> \o Zeros(n - 1)

\* String.prototype.padStart(length, "0")
padStart(s, length) == Zeros(length - Len(s)) \o s

pad(value, length) == padStart(NumberToString(value), length)

toMonthKey(year, month) == pad(year, 4) \o Hyphen \o pad(month, 2)

\* String.prototype.split("-")
RECURSIVE SplitFrom(_, _, _)
SplitFrom(s, i, cur) ==
    IF i > Len(s) THEN <<cur>>
    ELSE IF s[i] = 45 THEN <<cur>> \o SplitFrom(s, i + 1, << >>)
    ELSE SplitFrom(s, i + 1, Append(cur, s[i]))

split(s) == SplitFrom(s, 1, << >>)

RECURSIVE DigitsValue(_)
DigitsValue(s) ==
    IF s = << >> THEN 0
    ELSE 10 * DigitsValue(SubSeq(s, 1, Len(s) - 1)) + (s[Len(s)] - 48)

AllDigits(s) == \A i \in 1..Len(s) : IsDigitChar(s[i])

\* Number(text) for a string: "" is 0, an optionally signed run of decimal
\* digits is its value, and every other text used here is NaN (None).
StringToNumber(s) ==
    IF s = << >> THEN Some(0)
    ELSE IF AllDigits(s) THEN Some(DigitsValue(s))
    ELSE IF s[1] = 45 /\ Len(s) > 1 /\ AllDigits(Tail(s)) THEN Some(-DigitsValue(Tail(s)))
    ELSE None

\* A query parameter or data-* attribute: a string, null (URLSearchParams.get
\* of a missing parameter) or undefined (a missing data-* attribute)
Undefined == [t |-> "undefined", s |-> << >>]
Null == [t |-> "null", s |-> << >>]
Str(s) == [t |-> "string", s |-> s]

\* value is truthy: a non-empty string
Truthy(value) == value.t = "string" /\ value.s # << >>

\* value || ""
OrEmpty(value) == IF Truthy(value) THEN value.s ELSE << >>

\* Number(value): Number(null) is 0, Number(undefined) is NaN
ToNumber(value) ==
    IF value.t = "string" THEN StringToNumber(value.s)
    ELSE IF value.t = "null" THEN Some(0)
    ELSE None

\* String.prototype.startsWith
startsWith(s, prefix) ==
    Len(s) >= Len(prefix) /\ SubSeq(s, 1, Len(prefix)) = prefix

\* Code-unit order of two strings: -1, 0 or 1
RECURSIVE StringOrder(_, _)
StringOrder(a, b) ==
    IF a = << >> /\ b = << >> THEN 0
    ELSE IF a = << >> THEN -1
    ELSE IF b = << >> THEN 1
    ELSE IF Head(a) < Head(b) THEN -1
    ELSE IF Head(a) > Head(b) THEN 1
    ELSE StringOrder(Tail(a), Tail(b))

\* a.localeCompare(b): on strings of digits and hyphens the collation order
\* is the code-unit order (punctuation sorts before digits).
compareMonthKey(a, b) == StringOrder(a, b)

parseMonthKey(key) ==
    LET parts == split(key)
    IN  [year |-> The(StringToNumber(parts[1])),
         month |-> The(StringToNumber(parts[2]))]

\* clampMonthKey without the clamp to the maximum
MinOnlyClampMonthKey(key, minKey, maxKey) ==
    IF minKey # << >> /\ compareMonthKey(key, minKey) < 0 THEN minKey
    ELSE key

clampMonthKey(key, minKey, maxKey) ==
    IF minKey # << >> /\ compareMonthKey(key, minKey) < 0 THEN minKey
    ELSE IF maxKey # << >> /\ compareMonthKey(key, maxKey) > 0 THEN maxKey
    ELSE key

-----------------------------------------------------------------------------
(* Dates: the day arithmetic of ECMAScript behind the Date calls of the     *)
(* script, in the proleptic Gregorian calendar                              *)

\* The day number of a calendar day; month is 1..12, date may lie outside
\* the month
DayOfCivil(year, month, date) ==
    LET y == IF month <= 2 THEN year - 1 ELSE year
        era == y \div 400
        yoe == y - era * 400
        mp == (month + 9) % 12
        doy == ((153 * mp + 2) \div 5) + date - 1
        doe == yoe * 365 + (yoe \div 4) - (yoe \div 100) + doy
    IN  era * 146097 + doe - 719468

\* YearFromTime, MonthFromTime (0-based) and DateFromTime of a day number
DateFields(t) ==
    LET z == t + 719468
        era == z \div 146097
        doe == z - era * 146097
        yoe == (doe - (doe \div 1460) + (doe \div 36524) - (doe \div 146096)) \div 365
        doy == doe - (365 * yoe + (yoe \div 4) - (yoe \div 100))
        mp == (5 * doy + 2) \div 153
        m == IF mp < 10 THEN mp + 3 ELSE mp - 9
    IN  [year |-> yoe + era * 400 + (IF m <= 2 THEN 1 ELSE 0),
         month |-> m - 1,
         date |-> doy - ((153 * mp + 2) \div 5) + 1]

\* MakeDay(year, month, date) of ECMAScript; month is 0-based and may lie
\* outside 0..11, date may lie outside the month.
MakeDay(year, month0, date) ==
    DayOfCivil(year + (month0 \div 12), (month0 % 12) + 1, date)

\* new Date(year, monthIndex, date): a year in 0..99 means 1900 + year
NewDate(year, month0, date) ==
    MakeDay(IF year >= 0 /\ year <= 99 THEN 1900 + year ELSE year, month0, date)

getFullYear(t) == DateFields(t).year

\* Date.prototype.getMonth: 0-based
getMonth(t) == DateFields(t).month

getDate(t) == DateFields(t).date

\* Date.prototype.getDay: 0 is Sunday; 1970-01-01 was a Thursday
getDay(t) == (t + 4) % 7

setMonth(t, month0) ==
    LET f == DateFields(t) IN MakeDay(f.year, month0, f.date)

setDate(t, date) ==
    LET f == DateFields(t) IN MakeDay(f.year, f.month, date)

addMonths(year, month, offset) ==
    LET date == NewDate(year, month - 1, 1)
        moved == setMonth(date, getMonth(date) + offset)
    IN  [year |-> getFullYear(moved), month |-> getMonth(moved) + 1]

\* The while loop of buildCalendarMatrix: trailing weeks are popped until
\* the last one holds a day of the month
RECURSIVE PopTrailingWeeks(_, _)
PopTrailingWeeks(matrix, month) ==
    IF matrix = << >> THEN matrix
    ELSE IF \E day \in 1..7 : getMonth(matrix[Len(matrix)][day]) = month - 1
    THEN matrix
    ELSE PopTrailingWeeks(SubSeq(matrix, 1, Len(matrix) - 1), month)

buildCalendarMatrix(year, month) ==
    LET firstDay == NewDate(year, month - 1, 1)
        startOffset == getDay(firstDay)
        startDate == setDate(firstDay, 1 - startOffset)
        start == DateFields(startDate)
        \* cellDate = new Date(startDate); cellDate.setDate(startDate.getDate() + ...)
        cellDate(week, day) == MakeDay(start.year, start.month, start.date + week * 7 + day)
        matrix == [week \in 1..6 |-> [day \in 1..7 |-> cellDate(week - 1, day - 1)]]
    IN  PopTrailingWeeks(matrix, month)

-----------------------------------------------------------------------------
(* Data parsing *)
(*                                                                         *)
(* A JSON value of the embedded data is a record tagged by t.  A month     *)
(* object is [t |-> "object", year, month, days]: year and month are       *)
(* scalars [t, n] (an integer or its text is "int", null is "null", a      *)
(* missing property, a non-numeric text or a number with a fraction is     *)
(* "undefined"); days is Some(array) or None when it is no array.          *)
(* A day object is [t |-> "object", date, pages]: date is                  *)
(* Some(string) or None when it is no string, pages Some(array) or None.   *)
(* A page object is [t |-> "object", title, content], each Some(string) or *)
(* None.  A value that is no object (null, a number, ...) has t = "null".  *)

\* Number(value) of a JSON scalar when Number.isInteger holds of it, else None
IntegerOfJson(v) ==
    IF v.t = "int" THEN Some(v.n)
    ELSE IF v.t = "null" THEN Some(0)
    ELSE None

sanitizePage(page) ==
    IF page.t # "object" THEN None
    ELSE Some([title |-> IF IsSome(page.title) THEN The(page.title) ELSE << >>,
               content |-> IF IsSome(page.content) THEN The(page.content) ELSE << >>])

\* day.pages.map(sanitizePage).filter(Boolean)
RECURSIVE SanitizePages(_)
SanitizePages(pages) ==
    IF pages = << >> THEN << >>
    ELSE sanitizePage(Head(pages)) \o SanitizePages(Tail(pages))

\* A Map as the sequence of its [key, value] pairs in insertion order
MapHas(map, key) == \E i \in 1..Len(map) : map[i].key = key

MapGet(map, key) == map[CHOOSE i \in 1..Len(map) : map[i].key = key].value

\* Map.prototype.set: a present key keeps its place and takes the new value
MapSet(map, key, value) ==
    IF MapHas(map, key)
    THEN [i \in 1..Len(map) |->
            IF map[i].key = key THEN [key |-> key, value |-> value] ELSE map[i]]
    ELSE Append(map, [key |-> key, value |-> value])

\* Array.prototype.sort() without a comparator: ascending code-unit order
RECURSIVE InsertSorted(_, _)
InsertSorted(sorted, s) ==
    IF sorted = << >> THEN <<s>>
    ELSE IF StringOrder(s, Head(sorted)) < 0 THEN <<s>> \o sorted
    ELSE <<Head(sorted)>> \o InsertSorted(Tail(sorted), s)

RECURSIVE sort(_)
sort(days) ==
    IF days = << >> THEN << >>
    ELSE InsertSorted(sort(SubSeq(days, 1, Len(days) - 1)), days[Len(days)])

\* The rawDays.forEach of parseMonthData, on the entry fields it fills
RECURSIVE CollectDays(_, _)
CollectDays(rawDays, acc) ==
    IF rawDays = << >> THEN acc
    ELSE LET day == Head(rawDays)
         IN  IF day.t # "object" \/ ~IsSome(day.date)
             THEN CollectDays(Tail(rawDays), acc)
             ELSE LET iso == The(day.date)
                      pages == IF IsSome(day.pages)
                               THEN SanitizePages(The(day.pages)) ELSE << >>
                  IN  CollectDays(Tail(rawDays),
                         [days |-> Append(acc.days, iso),
                          pagesByDay |-> MapSet(acc.pagesByDay, iso, pages)])

\* parseMonthData without the final sort of the days
NoSortParseMonthData(rawMonth) ==
    IF rawMonth.t # "object" THEN None
    ELSE IF ~IsSome(IntegerOfJson(rawMonth.year)) \/ ~IsSome(IntegerOfJson(rawMonth.month))
    THEN None
    ELSE LET year == The(IntegerOfJson(rawMonth.year))
             month == The(IntegerOfJson(rawMonth.month))
             rawDays == IF IsSome(rawMonth.days) THEN The(rawMonth.days) ELSE << >>
             filled == CollectDays(rawDays, [days |-> << >>, pagesByDay |-> << >>])
         IN  Some([key |-> toMonthKey(year, month), year |-> year, month |-> month,
                   days |-> filled.days, pagesByDay |-> filled.pagesByDay])

parseMonthData(rawMonth) ==
    IF rawMonth.t # "object" THEN None
    ELSE IF ~IsSome(IntegerOfJson(rawMonth.year)) \/ ~IsSome(IntegerOfJson(rawMonth.month))
    THEN None
    ELSE LET year == The(IntegerOfJson(rawMonth.year))
             month == The(IntegerOfJson(rawMonth.month))
             rawDays == IF IsSome(rawMonth.days) THEN The(rawMonth.days) ELSE << >>
             filled == CollectDays(rawDays, [days |-> << >>, pagesByDay |-> << >>])
         IN  Some([key |-> toMonthKey(year, month), year |-> year, month |-> month,
                   days |-> sort(filled.days), pagesByDay |-> filled.pagesByDay])

\* The rawMonths.forEach of setupCalendar
RECURSIVE BuildMonthMap(_, _)
BuildMonthMap(rawMonths, monthMap) ==
    IF rawMonths = << >> THEN monthMap
    ELSE LET entry == parseMonthData(Head(rawMonths))
         IN  BuildMonthMap(Tail(rawMonths),
                IF IsSome(entry) THEN MapSet(monthMap, The(entry).key, The(entry))
                ELSE monthMap)

EmptyEntry(key, year, month) ==
    [key |-> key, year |-> year, month |-> month, days |-> << >>, pagesByDay |-> << >>]

\* The texts modelled hold no fraction, so Number.isInteger is "not NaN"
parseYearParam(value) == ToNumber(value)

parseMonthParam(value) ==
    LET number == ToNumber(value)
    IN  IF IsSome(number) /\ The(number) >= 1 /\ The(number) <= 12 THEN number ELSE None

-----------------------------------------------------------------------------
(* Links *)

\* The query string of a link, as the parameters a load of it reads back
buildMonthHref(year, month) ==
    [y |-> Str(NumberToString(year)), m |-> Str(pad(month, 2)), day |-> Null]

buildDayHref(year, month, iso) ==
    LET segments == split(iso)
        dayNumber == IF Len(segments) = 3 THEN StringToNumber(segments[3]) ELSE None
    IN  [y |-> Str(NumberToString(year)), m |-> Str(pad(month, 2)),
         day |-> IF IsSome(dayNumber) THEN Str(NumberToString(The(dayNumber))) ELSE Null]

-----------------------------------------------------------------------------
(* Render *)

\* The element renderArticles leaves in [data-calendar-articles]: the card
\* of the first page of the resolved day, or the empty-state message
renderArticles(st) ==
    LET currentMonth == st.currentMonth
        pagesOf(day) == IF MapHas(currentMonth.pagesByDay, day)
                        THEN MapGet(currentMonth.pagesByDay, day) ELSE << >>
        fallback == st.activeDay = << >> /\ Len(currentMonth.days) > 0
        resolvedDay == IF fallback THEN currentMonth.days[Len(currentMonth.days)]
                       ELSE st.activeDay
        pages == IF resolvedDay # << >> THEN pagesOf(resolvedDay) ELSE << >>
    IN  IF Len(pages) > 0
        THEN [kind |-> "article", day |-> resolvedDay, page |-> Some(pages[1])]
        ELSE [kind |-> "empty", day |-> resolvedDay, page |-> None]

createNavControl(target, disabled) ==
    IF disabled
    THEN [tag |-> "span", target |-> target, href |-> None]
    ELSE [tag |-> "a", target |-> target,
          href |-> Some(buildMonthHref(target.year, target.month))]

\* One cell of the grid: a placeholder for a date of another month, else the
\* link (or disabled span) of a day of the displayed month, with its
\* aria-current mark and its marker of a day with posts
renderCell(st, date) ==
    LET fields == DateFields(date)
        targetKey == toMonthKey(fields.year, fields.month + 1)
        iso == targetKey \o Hyphen \o pad(fields.date, 2)
        withinRange ==
            /\ (st.minKey = << >> \/ compareMonthKey(targetKey, st.minKey) >= 0)
            /\ (st.maxKey = << >> \/ compareMonthKey(targetKey, st.maxKey) <= 0)
        \* monthMap.get(targetKey) is the displayed entry in these cells
        pagesByDay == MapGet(st.monthMap, targetKey).pagesByDay
        hasPosts == MapHas(pagesByDay, iso) /\ Len(MapGet(pagesByDay, iso)) > 0
    IN  IF targetKey # st.currentMonth.key
        THEN [tag |-> "placeholder", iso |-> << >>, ariaCurrent |-> FALSE,
              marker |-> FALSE]
        ELSE IF ~withinRange
        THEN [tag |-> "span", iso |-> iso, ariaCurrent |-> FALSE, marker |-> FALSE]
        ELSE [tag |-> "a", iso |-> iso, ariaCurrent |-> (st.activeDay = iso),
              marker |-> hasPosts]

\* The element renderCalendar leaves in [data-calendar-container]
renderCalendar(st) ==
    LET currentMonth == st.currentMonth
        prevTarget == addMonths(currentMonth.year, currentMonth.month, -1)
        prevKey == toMonthKey(prevTarget.year, prevTarget.month)
        prevDisabled == st.minKey # << >> /\ compareMonthKey(prevKey, st.minKey) < 0
        nextTarget == addMonths(currentMonth.year, currentMonth.month, 1)
        nextKey == toMonthKey(nextTarget.year, nextTarget.month)
        nextDisabled == st.maxKey # << >> /\ compareMonthKey(nextKey, st.maxKey) > 0
        matrix == buildCalendarMatrix(currentMonth.year, currentMonth.month)
    IN  [kind |-> "calendar",
         prev |-> createNavControl(prevTarget, prevDisabled),
         next |-> createNavControl(nextTarget, nextDisabled),
         grid |-> [w \in 1..Len(matrix) |-> [d \in 1..7 |-> renderCell(st, matrix[w][d])]]]

-----------------------------------------------------------------------------
(* Setup *)

\* The monthMap.forEach that widens [minKey, maxKey] over the keys of the map
RECURSIVE WidenBounds(_, _)
WidenBounds(monthMap, bounds) ==
    IF monthMap = << >> THEN bounds
    ELSE LET key == Head(monthMap).key
             minKey == IF bounds.minKey = << >> \/ compareMonthKey(key, bounds.minKey) < 0
                       THEN key ELSE bounds.minKey
             maxKey == IF bounds.maxKey = << >> \/ compareMonthKey(key, bounds.maxKey) > 0
                       THEN key ELSE bounds.maxKey
         IN  WidenBounds(Tail(monthMap), [minKey |-> minKey, maxKey |-> maxKey])

\* /^\d{1,2}$/
IsDayNumberText(s) == Len(s) \in 1..2 /\ AllDigits(s)

\* /^\d{4}-\d{2}-\d{2}$/
IsIsoDayText(s) ==
    /\ Len(s) = 10
    /\ \A i \in 1..10 : IF i \in {5, 8} THEN s[i] = 45 ELSE IsDigitChar(s[i])

\* ExplicitDay without the check of the day number against the month
UncheckedExplicitDay(dayParam, currentKey, currentMonth) ==
    IF Truthy(dayParam) /\ IsDayNumberText(dayParam.s)
    THEN currentKey \o Hyphen \o pad(DigitsValue(dayParam.s), 2)
    ELSE IF /\ Truthy(dayParam) /\ IsIsoDayText(dayParam.s)
            /\ startsWith(dayParam.s, currentKey \o Hyphen)
    THEN dayParam.s
    ELSE << >>

\* The active day an explicit day parameter gives, or "" (null)
ExplicitDay(dayParam, currentKey, currentMonth) ==
    IF Truthy(dayParam) /\ IsDayNumberText(dayParam.s)
    THEN LET dayNumber == DigitsValue(dayParam.s)
             daysInMonth == getDate(NewDate(currentMonth.year, currentMonth.month, 0))
         IN  IF dayNumber >= 1 /\ dayNumber <= daysInMonth
             THEN currentKey \o Hyphen \o pad(dayNumber, 2)
             ELSE << >>
    ELSE IF /\ Truthy(dayParam) /\ IsIsoDayText(dayParam.s)
            /\ startsWith(dayParam.s, currentKey \o Hyphen)
    THEN dayParam.s
    ELSE << >>

\* The active day when no explicit day was taken, or "" (null)
DefaultDay(currentKey, currentMonth, datasetDefaultKey, datasetDefaultDay) ==
    IF /\ currentKey = datasetDefaultKey
       /\ datasetDefaultDay # << >>
       /\ MapHas(currentMonth.pagesByDay, datasetDefaultDay)
    THEN datasetDefaultDay
    ELSE IF Len(currentMonth.days) > 0
    THEN currentMonth.days[Len(currentMonth.days)]
    ELSE << >>

\* value !== null ? value : fallback
OrElse(option, fallback) == IF IsSome(option) THEN The(option) ELSE fallback

\* year !== null && month !== null ? toMonthKey(year, month) : null
KeyOfParams(year, month) ==
    IF IsSome(year) /\ IsSome(month) THEN toMonthKey(The(year), The(month)) ELSE << >>

\* defaultYear and defaultMonth: the dataset's, or today's
DefaultYear == OrElse(parseYearParam(dataset.defaultYear), getFullYear(today))
DefaultMonth == OrElse(parseMonthParam(dataset.defaultMonth), getMonth(today) + 1)

\* if (!monthMap.has(key)) monthMap.set(key, an entry without days)
EnsureEntry(monthMap, key, year, month) ==
    IF MapHas(monthMap, key) THEN monthMap
    ELSE MapSet(monthMap, key, EmptyEntry(key, year, month))

\* minKey and maxKey: the configured bounds, widened over the month map
Bounds(monthMap) ==
    WidenBounds(monthMap,
        [minKey |-> KeyOfParams(parseYearParam(dataset.minYear),
                                parseMonthParam(dataset.minMonth)),
         maxKey |-> KeyOfParams(parseYearParam(dataset.maxYear),
                                parseMonthParam(dataset.maxMonth))])

\* CurrentKey without the clamp of the requested month
UnclampedCurrentKey(defaultKey, bounds) ==
    IF IsSome(parseYearParam(search.y)) /\ IsSome(parseMonthParam(search.m))
    THEN KeyOfParams(parseYearParam(search.y), parseMonthParam(search.m))
    ELSE defaultKey

\* currentKey: the requested month clamped, or the default month
CurrentKey(defaultKey, bounds) ==
    IF IsSome(parseYearParam(search.y)) /\ IsSome(parseMonthParam(search.m))
    THEN clampMonthKey(KeyOfParams(parseYearParam(search.y), parseMonthParam(search.m)),
                       bounds.minKey, bounds.maxKey)
    ELSE defaultKey

\* activeDay: the explicit day, or the default active day
ActiveDay(currentKey, currentMonth) ==
    LET explicit == ExplicitDay(search.day, currentKey, currentMonth)
    IN  IF explicit # << >> THEN explicit
        ELSE DefaultDay(currentKey, currentMonth,
                        OrEmpty(dataset.defaultKey), OrEmpty(dataset.defaultDay))

\* The state object, given the month map with the displayed month in it
StateOf(monthMap, currentKey, bounds) ==
    [monthMap |-> monthMap,
     currentMonth |-> MapGet(monthMap, currentKey),
     activeDay |-> ActiveDay(currentKey, MapGet(monthMap, currentKey)),
     minKey |-> bounds.minKey, maxKey |-> bounds.maxKey,
     todayIso |-> toMonthKey(getFullYear(today), getMonth(today) + 1)
                    \o Hyphen \o pad(getDate(today), 2)]

\* From the current key on: the displayed month gets an entry if it has none
ResolveFromKey(monthMap, bounds, currentKey) ==
    StateOf(EnsureEntry(monthMap, currentKey, parseMonthKey(currentKey).year,
                        parseMonthKey(currentKey).month),
            currentKey, bounds)

\* From the bounds on: the query string gives the current key
ResolveFromBounds(monthMap, defaultKey, bounds) ==
    ResolveFromKey(monthMap, bounds, CurrentKey(defaultKey, bounds))

\* From the month map with the default month in it on
ResolveFromMap(monthMap, defaultKey) ==
    ResolveFromBounds(monthMap, defaultKey, Bounds(monthMap))

\* setupCalendar from the parsed array to the state object it renders
ResolveState(rawMonths) ==
    ResolveFromMap(EnsureEntry(BuildMonthMap(rawMonths, << >>),
                               toMonthKey(DefaultYear, DefaultMonth),
                               DefaultYear, DefaultMonth),
                   toMonthKey(DefaultYear, DefaultMonth))

\* What the server rendered into the two regions before the script runs
InitialHost == [kind |-> "initial"]
InitialArticles == [kind |-> "initial"]

\* setupCalendar(root), run by the DOMContentLoaded handler
setupCalendar ==
    /\ phase = "loading"
    /\ IF calendarData.json = "invalid"
       THEN \* JSON.parse throws; the catch logs and returns
            /\ phase' = "noop"
            /\ UNCHANGED <<state, host, articles>>
       ELSE IF calendarData.json # "array"
       THEN \* rawMonths.forEach is no function (or rawMonths is null): a
            \* TypeError outside the try leaves setupCalendar and the handler
            /\ phase' = "threw"
            /\ UNCHANGED <<state, host, articles>>
       ELSE /\ phase' = "rendered"
            /\ state' = ResolveState(calendarData.items)
            /\ host' = renderCalendar(state')
            /\ articles' = renderArticles(state')
    /\ UNCHANGED <<call, calendarData, dataset, search, today>>

-----------------------------------------------------------------------------
(* The page loads modelled *)

IntScalar(n) == [t |-> "int", n |-> n]
NullScalar == [t |-> "null", n |-> 0]
UndefinedScalar == [t |-> "undefined", n |-> 0]

NotAnObject == [t |-> "null"]
PageObject(title, content) == [t |-> "object", title |-> title, content |-> content]
NullPage == [t |-> "null", title |-> None, content |-> None]
DayObject(date, pages) == [t |-> "object", date |-> date, pages |-> pages]
NullDay == [t |-> "null", date |-> None, pages |-> None]
MonthObject(year, month, days) ==
    [t |-> "object", year |-> year, month |-> month, days |-> days]
NullMonth == [t |-> "null", year |-> UndefinedScalar, month |-> UndefinedScalar,
              days |-> None]

\* "YYYY-MM-DD" of three numbers
Iso(year, month, day) == toMonthKey(year, month) \o Hyphen \o pad(day, 2)

\* Titles and contents: "A", "B", "C"
TextA == <<65>>
TextB == <<66>>
TextC == <<67>>

\* February 2024, its days out of order, the earlier day with two pages
RawFebruary ==
    MonthObject(IntScalar(2024), IntScalar(2), Some(<<
        DayObject(Some(Iso(2024, 2, 10)), Some(<<PageObject(Some(TextA), Some(TextA))>>)),
        DayObject(Some(Iso(2024, 2, 3)),
                  Some(<<PageObject(Some(TextB), Some(TextB)),
                         PageObject(Some(TextC), Some(TextC))>>))>>))

\* December 2023: its latest day has no pages; a null day and a day without
\* a date string are among its days
RawDecember ==
    MonthObject(IntScalar(2023), IntScalar(12), Some(<<
        DayObject(Some(Iso(2023, 12, 25)), None),
        NullDay,
        DayObject(None, Some(<<PageObject(Some(TextA), Some(TextA))>>)),
        DayObject(Some(Iso(2023, 12, 5)), Some(<<PageObject(Some(TextC), Some(TextC))>>))>>))

\* A month number 13, with a day whose date is the text "x", a null page and
\* a page whose title is no string
RawThirteenth ==
    MonthObject(IntScalar(2024), IntScalar(13), Some(<<
        DayObject(Some(<<120>>), Some(<<NullPage, PageObject(None, Some(TextB))>>))>>))

\* year: null, which Number() turns into 0
RawYearNull ==
    MonthObject(NullScalar, IntScalar(2), Some(<<
        DayObject(Some(Iso(0, 2, 9)), Some(<<PageObject(Some(TextA), Some(TextA))>>))>>))

\* a day that is no day of its month: February 30
RawStrayDay ==
    MonthObject(IntScalar(2024), IntScalar(2), Some(<<
        DayObject(Some(Iso(2024, 2, 30)), Some(<<PageObject(Some(TextC), Some(TextC))>>))>>))

\* an object without a month number
RawNoMonthNumber ==
    MonthObject(IntScalar(2024), UndefinedScalar, Some(<<
        DayObject(Some(Iso(2024, 1, 1)), Some(<<PageObject(Some(TextA), Some(TextA))>>))>>))

RawMonthChoices ==
    {RawFebruary, RawDecember, RawThirteenth, RawYearNull, RawStrayDay,
     RawNoMonthNumber, NullMonth}

\* The longest array of months in the embedded data
MaxMonths == 2

RECURSIVE ArraysOf(_, _)
ArraysOf(choices, n) ==
    IF n = 0 THEN {<< >>}
    ELSE LET shorter == ArraysOf(choices, n - 1)
         IN  shorter \cup {Append(a, c) : a \in {b \in shorter : Len(b) = n - 1},
                                          c \in choices}

\* The data attribute: text that is no JSON, JSON that is no array, or an
\* array of months
CalendarDataChoices ==
    {[json |-> j, items |-> << >>] : j \in {"invalid", "null", "number", "object"}}
        \cup {[json |-> "array", items |-> a] : a \in ArraysOf(RawMonthChoices, MaxMonths)}

Attributes(defaultYear, defaultMonth, defaultKey, defaultDay, minYear, minMonth, maxYear, maxMonth) ==
    [defaultYear |-> defaultYear, defaultMonth |-> defaultMonth,
     defaultKey |-> defaultKey, defaultDay |-> defaultDay,
     minYear |-> minYear, minMonth |-> minMonth,
     maxYear |-> maxYear, maxMonth |-> maxMonth]

Text(n) == Str(NumberToString(n))

\* The data-* attributes with the day the page is loaded on: a default month
\* with a default day inside configured bounds; no attribute at all; a
\* default day without pages and bounds configured the wrong way round
EnvironmentChoices ==
    {<<Attributes(Text(2024), Str(pad(2, 2)), Str(toMonthKey(2024, 2)),
                  Str(Iso(2024, 2, 3)), Text(2024), Text(1), Text(2024), Text(3)),
       MakeDay(2024, 1, 29)>>,
     <<Attributes(Undefined, Undefined, Undefined, Undefined,
                  Undefined, Undefined, Undefined, Undefined),
       MakeDay(2023, 11, 31)>>,
     <<Attributes(Text(2024), Text(12), Str(toMonthKey(2023, 12)),
                  Str(Iso(2023, 12, 25)), Text(2024), Text(3), Text(2024), Text(1)),
       MakeDay(2024, 1, 29)>>}

\* The query string: y, m and day, each missing or a text
SearchChoices ==
    [y : {Null, Text(2023), Text(2024)},
     m : {Null, Str(pad(2, 2)), Text(12)},
     day : {Null, Text(0), Text(29), Text(31), Str(Iso(2024, 2, 3))}]

Init ==
    /\ call = Idle
    /\ calendarData \in CalendarDataChoices
    /\ \E env \in EnvironmentChoices : dataset = env[1] /\ today = env[2]
    /\ search \in SearchChoices
    /\ phase = "loading"
    /\ state = << >>
    /\ host = InitialHost
    /\ articles = InitialArticles

Next == setupCalendar

Spec == Init /\ [][Next]_vars

-----------------------------------------------------------------------------
(* The navigation specification: a load of the page, then any sequence of  *)
(* loads reached by following the enabled prev/next links.  The server      *)
(* renders the same data attributes into every load of the page.            *)

\* A click on a prev/next control that is a link: the browser leaves the
\* page for the link's href, a new document with the same data attributes
\* whose DOMContentLoaded handler will run setupCalendar; call keeps the
\* month the link was rendered for
followLink(control) ==
    /\ phase = "rendered"
    /\ control.tag = "a"
    /\ search' = The(control.href)
    /\ call' = [op |-> "followLink", target |-> control.target]
    /\ phase' = "loading"
    /\ state' = << >>
    /\ host' = InitialHost
    /\ articles' = InitialArticles
    /\ UNCHANGED <<calendarData, dataset, today>>

\* data-default-year="" (Number("") is 0) with data-default-month="4", and
\* no other attribute
EmptyDefaultYear ==
    <<Attributes(Str(<< >>), Text(4), Undefined, Undefined,
                 Undefined, Undefined, Undefined, Undefined),
      MakeDay(2024, 1, 29)>>

\* The loads navigated from: data of well-formed months (or none) under each
\* environment, and a month of year 0 under the empty default year
NavLoads ==
    ({<<RawFebruary, RawDecember>>, << >>} \X EnvironmentChoices)
        \cup {<<<<RawYearNull>>, EmptyDefaultYear>>}

NavInit ==
    /\ call = Idle
    /\ \E load \in NavLoads :
          /\ calendarData = [json |-> "array", items |-> load[1]]
          /\ dataset = load[2][1]
          /\ today = load[2][2]
    /\ search \in SearchChoices
    /\ phase = "loading"
    /\ state = << >>
    /\ host = InitialHost
    /\ articles = InitialArticles

NavNext ==
    \/ setupCalendar
    \/ followLink(host.prev)
    \/ followLink(host.next)

SpecNav == NavInit /\ [][NavNext]_vars

-----------------------------------------------------------------------------
(* The utility specification: one call of a date/key utility per behaviour *)

\* Each pivot year p stands for the years p..p+YearSpan.
YearSpan == 1

\* Around the change of era, of the two-digit years, of a century, of a
\* 400-year cycle, of the present, and of the four-digit years.
YearPivots == {-1, 99, 1899, 1999, 2023, 9999}

Years == UNION {p..(p + YearSpan) : p \in YearPivots}

Months == 1..12

\* Keys handed to clampMonthKey; the empty string is an unset bound
ClampYears == 2023..(2023 + YearSpan)
ClampKeys == {toMonthKey(y, m) : y \in ClampYears, m \in {1, 6, 12}}

CallBuildCalendarMatrix ==
    /\ call = Idle
    /\ \E year \in Years, month \in Months :
        call' = [op |-> "buildCalendarMatrix", year |-> year, month |-> month,
                 matrix |-> buildCalendarMatrix(year, month)]
    /\ UNCHANGED <<calendarData, dataset, search, today, phase, state, host, articles>>

CallCompareMonthKey ==
    /\ call = Idle
    /\ \E y1 \in Years, y2 \in Years, m1 \in Months, m2 \in Months :
        call' = [op |-> "compareMonthKey", y1 |-> y1, m1 |-> m1, y2 |-> y2, m2 |-> m2,
                 result |-> compareMonthKey(toMonthKey(y1, m1), toMonthKey(y2, m2))]
    /\ UNCHANGED <<calendarData, dataset, search, today, phase, state, host, articles>>

CallClampMonthKey ==
    /\ call = Idle
    /\ \E key \in ClampKeys, minKey \in ClampKeys \cup {<< >>},
          maxKey \in ClampKeys \cup {<< >>} :
        call' = [op |-> "clampMonthKey", key |-> key, minKey |-> minKey,
                 maxKey |-> maxKey, result |-> clampMonthKey(key, minKey, maxKey)]
    /\ UNCHANGED <<calendarData, dataset, search, today, phase, state, host, articles>>

UtilInit ==
    /\ call = Idle
    /\ calendarData = << >>
    /\ dataset = << >>
    /\ search = << >>
    /\ today = 0
    /\ phase = "idle"
    /\ state = << >>
    /\ host = << >>
    /\ articles = << >>

UtilNext == CallBuildCalendarMatrix \/ CallCompareMonthKey \/ CallClampMonthKey

SpecUtil == UtilInit /\ [][UtilNext]_vars

-----------------------------------------------------------------------------
(* C1 *)

\* The Gregorian calendar, stated apart from the Date arithmetic
InLeapYear(y) == (y % 4 = 0 /\ y % 100 # 0) \/ y % 400 = 0

DaysInMonth(y, m) ==
    IF m = 2 THEN (IF InLeapYear(y) THEN 29 ELSE 28)
    ELSE IF m \in {4, 6, 9, 11} THEN 30
    ELSE 31

\* The matrix is whole weeks of consecutive days from the Sunday on or before
\* the 1st of (year, month), every row holds a day of that month and every
\* day of that month is in exactly one cell.
MatrixIsCalendarOf(matrix, year, month) ==
    LET first == MakeDay(year, month - 1, 1)
    IN  /\ Len(matrix) >= 1
        /\ \A w \in 1..Len(matrix) : Len(matrix[w]) = 7
        /\ matrix[1][1] = first - getDay(first)
        /\ \A w \in 1..Len(matrix), d \in 1..7 :
              matrix[w][d] = matrix[1][1] + 7 * (w - 1) + (d - 1)
        /\ \A w \in 1..Len(matrix) : \E d \in 1..7 :
              /\ getFullYear(matrix[w][d]) = year
              /\ getMonth(matrix[w][d]) + 1 = month
        /\ \A n \in 1..DaysInMonth(year, month) :
              Cardinality({<<w, d>> \in (1..Len(matrix)) \X (1..7) :
                              matrix[w][d] = first + n - 1}) = 1

\* C1: for every year and every month in 1..12, buildCalendarMatrix returns
\* complete weeks of consecutive dates starting on the Sunday on or before the
\* 1st of the month, every retained row contains a date of the target month
\* and every day of the target month appears in exactly one cell.
C1_MatrixOfEveryYear ==
    call.op = "buildCalendarMatrix" =>
        MatrixIsCalendarOf(call.matrix, call.year, call.month)

\* (for reference) the same outside the two-digit years 0..99
C1_MatrixOutsideTwoDigitYears ==
    (call.op = "buildCalendarMatrix" /\ ~(call.year \in 0..99)) =>
        MatrixIsCalendarOf(call.matrix, call.year, call.month)

-----------------------------------------------------------------------------
(* C2 *)

Sign(n) == IF n < 0 THEN -1 ELSE IF n > 0 THEN 1 ELSE 0

\* Chronological order of two (year, month) pairs: -1, 0 or 1
Chronological(y1, m1, y2, m2) == Sign((y1 * 12 + m1) - (y2 * 12 + m2))

\* C2: for any integer years and months in 1..12, compareMonthKey of the two
\* month keys is negative, zero or positive exactly when the first (year,
\* month) is chronologically before, equal to or after the second.
C2_CompareIsChronological ==
    call.op = "compareMonthKey" =>
        Sign(call.result) = Chronological(call.y1, call.m1, call.y2, call.m2)

\* (for reference) the same for the years 0..9999 that YYYY holds
C2_CompareFourDigitYears ==
    (call.op = "compareMonthKey" /\ call.y1 \in 0..9999 /\ call.y2 \in 0..9999) =>
        Sign(call.result) = Chronological(call.y1, call.m1, call.y2, call.m2)

-----------------------------------------------------------------------------
(* C3 *)

InsideRange(key, minKey, maxKey) ==
    compareMonthKey(minKey, key) <= 0 /\ compareMonthKey(key, maxKey) <= 0

\* C3 as stated: for any key and any non-empty minKey and maxKey the result
\* of clampMonthKey lies in [minKey, maxKey], and is key when key lies there.
C3_ClampAnyBounds ==
    (call.op = "clampMonthKey" /\ call.minKey # << >> /\ call.maxKey # << >>) =>
        /\ InsideRange(call.result, call.minKey, call.maxKey)
        /\ InsideRange(call.key, call.minKey, call.maxKey) => call.result = call.key

\* C3 amended: for any key and any non-empty minKey and maxKey with
\* minKey <= maxKey the result of clampMonthKey lies in [minKey, maxKey], and
\* is key when key lies there.
C3_ClampOrderedBounds ==
    (/\ call.op = "clampMonthKey" /\ call.minKey # << >> /\ call.maxKey # << >>
     /\ compareMonthKey(call.minKey, call.maxKey) <= 0) =>
        /\ InsideRange(call.result, call.minKey, call.maxKey)
        /\ InsideRange(call.key, call.minKey, call.maxKey) => call.result = call.key

\* a key above an ordered range was clamped down to its maximum
C3_Witness ==
    /\ call.op = "clampMonthKey" /\ call.minKey # << >> /\ call.maxKey # << >>
    /\ compareMonthKey(call.minKey, call.maxKey) < 0
    /\ compareMonthKey(call.key, call.maxKey) > 0
    /\ call.result = call.maxKey

-----------------------------------------------------------------------------
(* Notions the claims about a page load are stated in *)

Rendered == phase = "rendered"

\* The greatest of a non-empty sequence of strings
Latest(days) ==
    days[CHOOSE i \in 1..Len(days) : \A j \in 1..Len(days) : StringOrder(days[j], days[i]) <= 0]

\* The day parameter is a one- or two-digit day number
DayNumberGiven == Truthy(search.day) /\ IsDayNumberText(search.day.s)

\* The dataset default day applies to the displayed month
DefaultDayApplies ==
    /\ Truthy(dataset.defaultKey) /\ dataset.defaultKey.s = state.currentMonth.key
    /\ Truthy(dataset.defaultDay)
    /\ MapHas(state.currentMonth.pagesByDay, dataset.defaultDay.s)

\* The default active day: the dataset default day when it applies, else the
\* latest day of the month entry, else none
DefaultActiveDay ==
    IF DefaultDayApplies THEN dataset.defaultDay.s
    ELSE IF Len(state.currentMonth.days) > 0 THEN Latest(state.currentMonth.days)
    ELSE << >>

-----------------------------------------------------------------------------
(* C4 *)

\* The length the script finds for the displayed month:
\* new Date(year, month, 0).getDate()
ScriptDaysInMonth ==
    getDate(NewDate(state.currentMonth.year, state.currentMonth.month, 0))

C4_WitnessLeapDay ==
    /\ Rendered /\ search.day = Text(29)
    /\ state.currentMonth.key = toMonthKey(2024, 2)
    /\ state.activeDay = Iso(2024, 2, 29)

\* (for reference) day=29 was asked of February of year 0, which the script
\* measures as February 1900: 28 days, so the default active day is taken
C4_YearZeroLeapDay ==
    /\ Rendered /\ search.day = Text(29)
    /\ state.currentMonth.key = toMonthKey(0, 2)
    /\ ScriptDaysInMonth = 28 /\ DaysInMonth(0, 2) = 29
    /\ state.activeDay = Iso(0, 2, 9)

-----------------------------------------------------------------------------
(* C5 *)

\* C5: for every value of the data attribute setupCalendar returns without an
\* exception reaching its caller, and when the text is no JSON both DOM
\* regions are left as they were.
C5_NoExceptionPropagates ==
    /\ phase # "threw"
    /\ (phase # "loading" /\ calendarData.json = "invalid") =>
          (phase = "noop" /\ host = InitialHost /\ articles = InitialArticles)

\* (for reference) text that is no JSON is a no-op
C5_InvalidJsonIsNoop ==
    (phase # "loading" /\ calendarData.json = "invalid") =>
        (phase = "noop" /\ host = InitialHost /\ articles = InitialArticles)

-----------------------------------------------------------------------------
(* C6 *)

\* The day parameter is one the script accepts for the displayed month: a
\* day number in 1..daysInMonth, or an ISO day string that begins with the
\* month key
ExplicitDayValid ==
    \/ /\ DayNumberGiven
       /\ DigitsValue(search.day.s) >= 1
       /\ DigitsValue(search.day.s) <= ScriptDaysInMonth
    \/ /\ Truthy(search.day) /\ ~IsDayNumberText(search.day.s)
       /\ IsIsoDayText(search.day.s)
       /\ startsWith(search.day.s, state.currentMonth.key \o Hyphen)

ExplicitDayGiven ==
    IF DayNumberGiven
    THEN state.currentMonth.key \o Hyphen \o pad(DigitsValue(search.day.s), 2)
    ELSE search.day.s

\* The days of the displayed month that have at least one page
DaysWithContent ==
    LET entry == state.currentMonth
    IN  {i \in 1..Len(entry.days) : Len(MapGet(entry.pagesByDay, entry.days[i])) > 0}

LatestWithContent ==
    LET entry == state.currentMonth
    IN  entry.days[CHOOSE i \in DaysWithContent :
            \A j \in DaysWithContent : StringOrder(entry.days[j], entry.days[i]) <= 0]

\* C6 as stated: a valid explicit day wins, else the dataset default day when
\* it applies, else the most recent day of the displayed month that has at
\* least one page, else there is no active day.
C6_LatestDayWithContent ==
    Rendered =>
        state.activeDay =
            IF ExplicitDayValid THEN ExplicitDayGiven
            ELSE IF DefaultDayApplies THEN dataset.defaultDay.s
            ELSE IF DaysWithContent # {} THEN LatestWithContent
            ELSE << >>

\* (for reference) what the script does: a valid explicit day wins, else the dataset default day when it
\* applies, else the latest day listed in the displayed month's entry, with
\* or without pages, else (the entry lists no day) there is no active day.
C6_LatestDayListed ==
    Rendered =>
        state.activeDay =
            IF ExplicitDayValid THEN ExplicitDayGiven
            ELSE IF DefaultDayApplies THEN dataset.defaultDay.s
            ELSE IF Len(state.currentMonth.days) > 0 THEN Latest(state.currentMonth.days)
            ELSE << >>

\* December 2023 is displayed without an explicit or default day: its latest
\* day, which has no pages, is active although an earlier day has a page
C6_Witness ==
    /\ Rendered /\ ~ExplicitDayValid /\ ~DefaultDayApplies
    /\ state.currentMonth.key = toMonthKey(2023, 12)
    /\ state.activeDay = Iso(2023, 12, 25)
    /\ MapGet(state.currentMonth.pagesByDay, state.activeDay) = << >>
    /\ DaysWithContent # {}

\* the dataset default day was taken although a later day is listed
C6_WitnessDefaultDay ==
    /\ Rendered /\ ~ExplicitDayValid /\ DefaultDayApplies
    /\ state.activeDay = Iso(2024, 2, 3)
    /\ Latest(state.currentMonth.days) = Iso(2024, 2, 10)

-----------------------------------------------------------------------------
(* C7 *)

\* The month `offset` months from (year, month), counted along the calendar
MonthAt(year, month, offset) ==
    LET index == year * 12 + (month - 1) + offset
    IN  [year |-> index \div 12, month |-> (index % 12) + 1]

\* The control is disabled exactly when the target lies outside the range,
\* and is else a link whose query string names the target
ControlIsFor(control, target) ==
    /\ control.target = target
    /\ (control.tag = "span") <=>
          ~InsideRange(toMonthKey(target.year, target.month), state.minKey, state.maxKey)
    /\ control.tag = "a" =>
          /\ IsSome(control.href)
          /\ ToNumber(The(control.href).y) = Some(target.year)
          /\ ToNumber(The(control.href).m) = Some(target.month)

NavigationIsAdjacent ==
    LET current == state.currentMonth
    IN  /\ ControlIsFor(host.prev, MonthAt(current.year, current.month, -1))
        /\ ControlIsFor(host.next, MonthAt(current.year, current.month, 1))
        /\ current.key = state.minKey => host.prev.tag = "span"
        /\ current.key = state.maxKey => host.next.tag = "span"

\* C7: in every rendered calendar prev targets the month before the displayed
\* month and next the month after it, a control is a disabled non-link
\* exactly when its target lies outside [minKey, maxKey] (prev at the minimum
\* bound, next at the maximum bound), and is else a link to its target.
C7_NavigationIsAdjacent == Rendered => NavigationIsAdjacent

\* (for reference) the same when the displayed year is none of 0..99
C7_NavigationOutsideTwoDigitYears ==
    (Rendered /\ ~(state.currentMonth.year \in 0..99)) => NavigationIsAdjacent

-----------------------------------------------------------------------------
(* C8 *)

Entries == {state.monthMap[i].value : i \in 1..Len(state.monthMap)}

SortedAscending(days) ==
    \A i \in 1..(Len(days) - 1) : StringOrder(days[i], days[i + 1]) <= 0

\* C8: after parsing, the day strings of every month entry are in ascending
\* string order, so that the last one is the latest day of the entry.
C8_DaysSortedAscending ==
    Rendered =>
        \A entry \in Entries :
            /\ SortedAscending(entry.days)
            /\ Len(entry.days) > 0 => entry.days[Len(entry.days)] = Latest(entry.days)

\* February 2024, whose days the data lists latest first, was parsed
C8_Witness ==
    /\ Rendered
    /\ \E entry \in Entries : entry.days = <<Iso(2024, 2, 3), Iso(2024, 2, 10)>>
    /\ \E i \in 1..Len(calendarData.items) : calendarData.items[i] = RawFebruary

-----------------------------------------------------------------------------
(* C9 *)

IsText(s) == \A i \in 1..Len(s) : s[i] \in Nat

WellFormedEntry(entry) ==
    /\ entry.year \in Int
    /\ entry.month \in 1..12
    /\ Len(entry.key) = 7
    /\ entry.key = toMonthKey(entry.year, entry.month)
    /\ \A i \in 1..Len(entry.days) : IsIsoDayText(entry.days[i])
    /\ \A i \in 1..Len(entry.pagesByDay) :
          \A j \in 1..Len(entry.pagesByDay[i].value) :
              /\ IsText(entry.pagesByDay[i].value[j].title)
              /\ IsText(entry.pagesByDay[i].value[j].content)

\* C9: every month entry built from the data has an integer year, a month in
\* 1..12 and the zero-padded YYYY-MM key of them; every day it retains is an
\* ISO YYYY-MM-DD string; every page it retains has a string title and a
\* string content.
C9_EntriesWellFormed ==
    Rendered => \A entry \in Entries : WellFormedEntry(entry)

\* (for reference) months that are no objects or lack an integer year or
\* month leave no entry, and the load goes on
C9_MalformedMonthsDropped ==
    Rendered =>
        \A i \in 1..Len(calendarData.items) :
            LET raw == calendarData.items[i]
            IN  (raw.t # "object" \/ raw.year.t = "undefined" \/ raw.month.t = "undefined")
                    => parseMonthData(raw) = None

-----------------------------------------------------------------------------
(* C10 *)

\* The configured bound of the dataset, or "" when it is not configured
ConfiguredKey(yearAttr, monthAttr) ==
    IF IsSome(parseYearParam(yearAttr)) /\ IsSome(parseMonthParam(monthAttr))
    THEN toMonthKey(The(parseYearParam(yearAttr)), The(parseMonthParam(monthAttr)))
    ELSE << >>

ConfiguredMin == ConfiguredKey(dataset.minYear, dataset.minMonth)
ConfiguredMax == ConfiguredKey(dataset.maxYear, dataset.maxMonth)

\* The month keys the load knows before it reads the query string: those
\* of the months of the data that parse, and the default month
KnownKeys ==
    LET parsed == {parseMonthData(calendarData.items[i]) : i \in 1..Len(calendarData.items)}
        year == parseYearParam(dataset.defaultYear)
        month == parseMonthParam(dataset.defaultMonth)
    IN  {The(entry).key : entry \in {e \in parsed : IsSome(e)}}
            \cup {toMonthKey(IF IsSome(year) THEN The(year) ELSE getFullYear(today),
                             IF IsSome(month) THEN The(month) ELSE getMonth(today) + 1)}

\* C10 as stated: when a minimum and a maximum are configured, the displayed
\* month is never before the configured minimum nor after the configured
\* maximum, whatever the query parameters and the data.  (Read in the
\* claim's favour: for a configured minimum that is not after the maximum,
\* and a displayed month 1..12 of a four-digit year.)
C10_WithinConfiguredBounds ==
    (/\ Rendered /\ ConfiguredMin # << >> /\ ConfiguredMax # << >>
     /\ compareMonthKey(ConfiguredMin, ConfiguredMax) <= 0
     /\ state.currentMonth.year \in 1000..9999
     /\ state.currentMonth.month \in 1..12) =>
        InsideRange(state.currentMonth.key, ConfiguredMin, ConfiguredMax)

\* C10 amended: when a minimum and a maximum are configured, the displayed
\* month is never before the earliest nor after the latest (by compareMonthKey)
\* of the configured bound, the months of the data and the default month.
C10_WithinWidenedBounds ==
    (Rendered /\ ConfiguredMin # << >> /\ ConfiguredMax # << >>) =>
        /\ \E low \in KnownKeys \cup {ConfiguredMin} :
              compareMonthKey(low, state.currentMonth.key) <= 0
        /\ \E high \in KnownKeys \cup {ConfiguredMax} :
              compareMonthKey(state.currentMonth.key, high) <= 0

\* December 2024 was asked for and the configured maximum, March 2024, is
\* displayed: no known month is later
C10_Witness ==
    /\ Rendered /\ ConfiguredMin # << >> /\ ConfiguredMax # << >>
    /\ search.y = Text(2024) /\ search.m = Text(12)
    /\ state.currentMonth.key = ConfiguredMax
    /\ state.currentMonth.key = toMonthKey(2024, 3)
    /\ \A key \in KnownKeys : compareMonthKey(key, ConfiguredMax) < 0

-----------------------------------------------------------------------------
(* C11 *)

\* The displayed month lies in [minKey, maxKey], and minKey <= maxKey
WithinRange ==
    /\ compareMonthKey(state.minKey, state.maxKey) <= 0
    /\ InsideRange(state.currentMonth.key, state.minKey, state.maxKey)

\* The load made by following a link displays the month the link targets
DisplaysFollowedTarget ==
    call.op = "followLink" =>
        state.currentMonth.key = toMonthKey(call.target.year, call.target.month)

\* Unless the displayed month is the last of the range, next is a link to
\* the month after it; unless it is the first, prev is a link to the month
\* before it: so the links lead from any month of the range to every other
LinksLeadOn ==
    LET current == state.currentMonth
    IN  /\ current.key # state.maxKey =>
              /\ host.next.tag = "a"
              /\ host.next.target = MonthAt(current.year, current.month, 1)
        /\ current.key # state.minKey =>
              /\ host.prev.tag = "a"
              /\ host.prev.target = MonthAt(current.year, current.month, -1)

\* C11: after a load with any query parameters and any sequence of loads
\* made by following enabled prev/next links, the displayed month is within
\* [minKey, maxKey] with minKey <= maxKey, a followed link displays exactly
\* the month it targets, and every month of the range can be reached (each
\* month but the last links on to the next, each but the first to the one
\* before).
C11_NavigationIsClosed ==
    Rendered => (WithinRange /\ DisplaysFollowedTarget /\ LinksLeadOn)

\* (for reference) the same when the displayed year is none of 0..99
C11_NavigationOutsideTwoDigitYears ==
    (Rendered /\ ~(state.currentMonth.year \in 0..99)) =>
        (WithinRange /\ DisplaysFollowedTarget /\ LinksLeadOn)

\* (for reference) the range is kept and is ordered in every load
C11_RangeIsKept == Rendered => WithinRange

\* (for reference) March 2024 was displayed by following next from February
C11_FollowedNext ==
    /\ Rendered /\ call.op = "followLink"
    /\ call.target = [year |-> 2024, month |-> 3]
    /\ state.currentMonth.key = toMonthKey(2024, 3)
    /\ host.prev.tag = "a" /\ host.prev.target = [year |-> 2024, month |-> 2]

-----------------------------------------------------------------------------
(* C12 *)

\* The grid cells marked aria-current="date"
ActiveCells ==
    {cell \in (1..Len(host.grid)) \X (1..7) : host.grid[cell[1]][cell[2]].ariaCurrent}

\* The calendar days of the displayed month, as ISO day strings
DaysOfDisplayedMonth ==
    {Iso(state.currentMonth.year, state.currentMonth.month, d) :
        d \in 1..DaysInMonth(state.currentMonth.year, state.currentMonth.month)}

\* At most one cell is marked, and when an article is displayed exactly one
\* is: the cell of the article's day, a calendar day of the displayed month
GridAndPanelAgree ==
    /\ Cardinality(ActiveCells) <= 1
    /\ articles.kind = "article" =>
          /\ \E cell \in ActiveCells :
                /\ ActiveCells = {cell}
                /\ host.grid[cell[1]][cell[2]].iso = articles.day
          /\ articles.day \in DaysOfDisplayedMonth
          /\ articles.page = Some(MapGet(state.currentMonth.pagesByDay, articles.day)[1])

\* C12: after setupCalendar, for any data, dataset and query parameters, at
\* most one grid cell is marked active, and whenever the article panel
\* displays an article exactly one cell is marked active and it is the cell
\* of the day whose first page is displayed, a real calendar day of the
\* displayed month.  (Read in the claim's favour: for a displayed month
\* 1..12 of a four-digit year.)
C12_GridAndPanelAgree ==
    (/\ Rendered
     /\ state.currentMonth.year \in 1000..9999
     /\ state.currentMonth.month \in 1..12) => GridAndPanelAgree

\* (for reference) the same when every day the displayed entry lists is a
\* calendar day of the displayed month
C12_AgreeOnCalendarDays ==
    (/\ Rendered
     /\ state.currentMonth.year \in 1000..9999
     /\ state.currentMonth.month \in 1..12
     /\ \A i \in 1..Len(state.currentMonth.days) :
            state.currentMonth.days[i] \in DaysOfDisplayedMonth) => GridAndPanelAgree

\* (for reference) the article of 2024-02-10 is displayed and its cell marked
C12_ArticleAndCell ==
    /\ Rendered /\ articles.kind = "article" /\ articles.day = Iso(2024, 2, 10)
    /\ \E cell \in ActiveCells : host.grid[cell[1]][cell[2]].iso = Iso(2024, 2, 10)

\* (for reference) the article of year 0 is displayed in a grid of 1900
C12_YearZeroArticle ==
    /\ Rendered /\ articles.kind = "article" /\ articles.day = Iso(0, 2, 9)
    /\ ActiveCells = {}

=============================================================================
